---- MODULE Spec2Model ----
(***************************************************************************)
(* The command execution bridge of the InDesign MCP server (src/index.js): *)
(* the CallToolRequestSchema handler, executeInDesignScript,               *)
(* executeAppleScript and formatResponse, run by one or more server        *)
(* processes started from the same install directory, together with the    *)
(* file system and the foreign scripting engine they drive.                *)
(***************************************************************************)
EXTENDS Integers, Sequences, FiniteSets, TLC

\* ------------------------------------------------------------------ bounds
\* Server processes started from the same install directory.
NumProcs == 2
\* Tool requests outstanding at once, over all processes.
MaxReqs == 2
\* Pages of the active document.
MaxPages == 2
\* Characters of a caller's text parameter.
MaxLen == 3

Procs == 1..NumProcs
Reqs == 1..MaxReqs

\* ------------------------------------------------------- strings as tokens
\* A string is a sequence of tokens; these three are the characters the
\* foreign language's string-literal rules treat specially.
Quote == "\""
Backslash == "\\"
Newline == "\n"
Whitespace == {" ", Newline}

\* ---------------------------------------------------------------- catalog
\* The operations of the catalog that the model dispatches; the other
\* catalog entries are routed and rendered the same way.
ToolNames == {"get_document_info", "create_document", "open_document",
              "delete_page", "execute_indesign_code"}

\* A name the dispatch switch has no case for.
UnknownName == "no_such_tool"

Names == ToolNames \cup {UnknownName}

\* The text operations of the catalog, dispatched one request at a time.
TextToolNames == {"create_text_frame", "edit_text_frame", "find_replace_text"}

\* The names of the tool listing.
Catalog ==
  { "get_document_info", "create_document", "open_document", "save_document",
    "close_document", "add_page", "delete_page", "duplicate_page",
    "navigate_to_page", "create_text_frame", "edit_text_frame",
    "find_replace_text", "place_image", "create_rectangle", "create_ellipse",
    "create_paragraph_style", "create_character_style",
    "apply_paragraph_style", "list_styles", "create_color_swatch",
    "list_color_swatches", "apply_color", "create_table", "populate_table",
    "create_layer", "set_active_layer", "list_layers", "export_pdf",
    "export_images", "export_epub", "package_document",
    "execute_indesign_code", "preflight_document", "view_document",
    "zoom_to_page", "data_merge" }

\* A switch that lost one of its cases.
SwitchCasesButOne == Catalog \ {"zoom_to_page"}

\* The case labels of the dispatch switch.
SwitchCases ==
  { "get_document_info", "create_document", "open_document", "save_document",
    "close_document",
    "add_page", "delete_page", "duplicate_page", "navigate_to_page",
    "create_text_frame", "edit_text_frame", "find_replace_text",
    "place_image", "create_rectangle", "create_ellipse",
    "create_paragraph_style", "create_character_style",
    "apply_paragraph_style", "list_styles",
    "create_color_swatch", "list_color_swatches", "apply_color",
    "create_table", "populate_table",
    "create_layer", "set_active_layer", "list_layers",
    "export_pdf", "export_images", "export_epub", "package_document",
    "execute_indesign_code", "preflight_document", "view_document",
    "zoom_to_page", "data_merge" }

\* The cases of the dispatch switch.
Routed(name) == name \in SwitchCases

\* inputSchema.required of each catalog entry.
Required(name) ==
  CASE name = "open_document" -> {"filePath"}
    [] name = "delete_page" -> {"pageIndex"}
    [] name = "execute_indesign_code" -> {"code"}
    [] name = "create_text_frame" -> {"content"}
    [] name = "edit_text_frame" -> {"frameIndex"}
    [] name = "find_replace_text" -> {"findText", "replaceText"}
    [] name = "duplicate_page" -> {"pageIndex"}
    [] name = "create_paragraph_style" -> {"name"}
    [] name = "create_color_swatch" -> {"name", "colorValues"}
    [] name = "export_images" -> {"folderPath"}
    [] OTHER -> {}

\* The optional properties of the catalog entries the model renders.
Optional(name) ==
  CASE name = "create_document" -> {"bleed"}
    [] name = "save_document" -> {"filePath"}
    [] name = "edit_text_frame" -> {"content"}
    [] name = "create_paragraph_style" -> {"spaceBefore"}
    [] name = "create_color_swatch" -> {"colorModel"}
    [] name = "export_images" -> {"format"}
    [] OTHER -> {}

\* Whether the routed method reads a property of the arguments object:
\* a destructuring `const {...} = args`, or `args.code` in the switch.
ReadsArgs(name) ==
  name \notin {"get_document_info", "list_color_swatches", "list_layers",
               "view_document"}

\* The label each operation passes to formatResponse.
Label(name) ==
  CASE name = "get_document_info" -> "Document Info"
    [] name = "create_document" -> "Create Document"
    [] name = "open_document" -> "Open Document"
    [] name = "delete_page" -> "Delete Page"
    [] name = "execute_indesign_code" -> "Execute Custom Code"
    [] name = "create_text_frame" -> "Create Text Frame"
    [] name = "edit_text_frame" -> "Edit Text Frame"
    [] name = "find_replace_text" -> "Find/Replace Text"
    [] name = "save_document" -> "Save Document"
    [] name = "add_page" -> "Add Page"
    [] name = "duplicate_page" -> "Duplicate Page"
    [] name = "create_paragraph_style" -> "Create Paragraph Style"
    [] name = "create_color_swatch" -> "Create Color Swatch"
    [] name = "export_images" -> "Export Images"
    [] name = "list_color_swatches" -> "List Color Swatches"
    [] name = "list_layers" -> "List Layers"
    [] name = "view_document" -> "Document View"
    [] OTHER -> "Operation"

\* ------------------------------------------------ scripts and their engine
\* A script payload is a sequence of statements [k, s]:
\*   lit       an expression statement that is a string literal whose source
\*             text between the template's quotes is s
\*   ifNoDoc   if (app.documents.length === 0) { "<s>"; } else { the rest }
\*   app       calls into the application's object model outside any
\*             try/catch of the template
\*   appTry    such calls inside the template's own try/catch, whose catch
\*             clause is "<s>" + e.message
\*   ident     the identifier s as an expression statement
\*   throwErr  throw new Error(s)
\*   throwNull throw null
\*   syntax    text that does not parse (an unbalanced brace, ...)
\*   cat       + "<s>" appended to the expression statement before it
\*   assign    textFrame.contents = "<s>";
\*   addDoc    app.documents.add() and the settings of the new document
\*   removePage the try block of deletePage, s the page index as rendered
\*   addPage   the try block of addPage with position 'end'
\*   dupPage   the try block of duplicatePage, s the page index as rendered
\*   ifPositive if (<s[2]> > 0) { settings of parameter s[1] }
\*   clause    the statements a template renders for parameter s[1], the
\*             rest of s the value as rendered
\*   ifSaved   if (doc.saved) { doc.save(); ... } else { "<s>"; }
\*   addColor  the if/else-if chain of createColorSwatch over colour model
\*             s[1], s[2] the name of the new colour
\*   export    the switch of exportImages over format s[1] and the export
\*             of the pages to folder s[2]
Stmt(k, s) == [k |-> k, s |-> s]
Lit(s) == Stmt("lit", s)

\* The statements that hold a string literal "<s>".
LiteralKinds == {"lit", "cat", "assign", "ifNoDoc", "appTry"}

\* The foreign engine's reading of the source text s of a string literal
\* "<s>": a backslash takes the next character with it, a bare quote ends
\* the literal early and a bare line break or a trailing backslash leaves it
\* unterminated; with no operator among the characters, text after an early
\* end does not parse.
RECURSIVE DecodeFrom(_, _, _)
DecodeFrom(s, i, acc) ==
  IF i > Len(s) THEN [ok |-> TRUE, val |-> acc]
  ELSE IF s[i] = Backslash
    THEN IF i = Len(s) THEN [ok |-> FALSE, val |-> acc]
         ELSE DecodeFrom(s, i + 2,
                Append(acc, IF s[i + 1] = "n" THEN Newline ELSE s[i + 1]))
  ELSE IF s[i] = Quote \/ s[i] = Newline THEN [ok |-> FALSE, val |-> acc]
  ELSE DecodeFrom(s, i + 1, Append(acc, s[i]))

DecodeLiteral(s) == DecodeFrom(s, 1, <<>>)

\* Whether the engine can compile the script at all: no text that does not
\* parse, and every string literal of the script is read to its closing
\* quote.
Parses(body) ==
  \A i \in 1..Len(body) :
    /\ body[i].k # "syntax"
    /\ body[i].k \in LiteralKinds => DecodeLiteral(body[i].s).ok

\* `pages = 1`: the pages of a document created without a pages argument.
NewDocPages == 1

\* The message of an exception the application's object model raises.
EngineMessage == <<"engine error">>

\* The application as the scripts see it: whether a document is open
\* (app.documents.length === 0 or not), the pages of the active document,
\* the names of the colours added to it and the format of the page images
\* last exported from it.
App(docs, pages) ==
  [docs |-> docs, pages |-> pages, colors |-> {}, exported |-> ""]
NoDocument == App(0, 0)
AppStates == {NoDocument} \cup {App(1, n) : n \in 1..MaxPages}

\* The number a page index of the script text stands for; "undefined"
\* stands for none.
NumOf(s) ==
  IF \E n \in 0..MaxPages : s = <<ToString(n)>>
  THEN CHOOSE n \in 0..MaxPages : s = <<ToString(n)>>
  ELSE -1

\* The page index of the script text is the word undefined: every
\* comparison with it is false.
Undefined(s) == s = <<"undefined">>

\* An end of a run of statements: k is "value" with the text of the last
\* expression statement, or a throw; app is the application afterwards.
End(k, text, a) == [k |-> k, text |-> text, app |-> a]

\* A try block without the branch for the last page: a valid index is
\* removed whatever the number of pages.
RemovePageAlways(a, s) ==
  LET idx == NumOf(s) IN
  IF idx = -1 \/ idx >= a.pages
    THEN {End("value", <<"Invalid page index: ">> \o s
                 \o <<". Document has ", ToString(a.pages), " pages.">>, a)}
  ELSE {End("value", <<"Page ", ToString(idx + 1), " deleted. Remaining pages: ",
                       ToString(a.pages - 1)>>,
            [a EXCEPT !.pages = a.pages - 1])}

\* The try block of deletePage with page index s, in application a: the
\* index is refused, the last page is refused, or the page is removed; a
\* failing call of the object model ends in the block's own catch clause.
RemovePage(a, s) ==
  LET idx == NumOf(s)
      caught == End("value", <<"Error deleting page: ">> \o EngineMessage, a)
  IN
  IF ~Undefined(s) /\ (idx >= a.pages \/ idx < 0)
    THEN {End("value", <<"Invalid page index: ">> \o s
                 \o <<". Document has ", ToString(a.pages), " pages.">>, a)}
  ELSE IF a.pages = 1
    THEN {End("value", <<"Cannot delete the last page in the document.">>, a)}
  ELSE IF Undefined(s) THEN {caught}
  ELSE {caught,
        End("value", <<"Page ", ToString(idx + 1), " deleted. Remaining pages: ",
                       ToString(a.pages - 1)>>,
            [a EXCEPT !.pages = a.pages - 1])}

\* The try block of addPage with position 'end': a page is added after the
\* last one, or a call of the object model fails into the catch clause.
AddPage(a) ==
  { End("value", <<"Error adding page: ">> \o EngineMessage, a),
    End("value", <<"Page added at position ", ToString(a.pages + 1),
                   ". Total pages: ", ToString(a.pages + 1)>>,
        [a EXCEPT !.pages = a.pages + 1]) }

\* The try block of duplicatePage with page index s: the index is refused,
\* or a copy of the page is added after it.
DuplicatePage(a, s) ==
  LET idx == NumOf(s)
      caught == End("value", <<"Error duplicating page: ">> \o EngineMessage, a)
  IN
  IF ~Undefined(s) /\ (idx >= a.pages \/ idx < 0)
    THEN {End("value", <<"Invalid page index: ">> \o s, a)}
  ELSE IF Undefined(s) THEN {caught}
  ELSE {caught,
        End("value", <<"Page ", ToString(idx + 1),
                       " duplicated. New page position: ", ToString(idx + 2)>>,
            [a EXCEPT !.pages = a.pages + 1])}

\* The two branches of `if (doc.saved)` in saveDocument; which one runs
\* depends on the document, s is the text of the else branch.
IfSaved(a, s) ==
  { End("value", <<"Error saving document: ">> \o EngineMessage, a),
    End("value", <<"Document saved: ", "Untitled-1">>, a),
    End("value", s, a) }

\* The models the if/else-if chain of createColorSwatch has a branch for.
ColorBranches == {"CMYK", "RGB"}

\* The colours of the document after the chain ran for model and name.
AddColor(a, model, name) ==
  IF model \in ColorBranches
  THEN [a EXCEPT !.colors = a.colors \cup {name}]
  ELSE a

\* The format the switch of exportImages selects for the one requested:
\* PNG_FORMAT under case "PNG", JPG under case "JPEG", PNG_FORMAT under
\* default.
ExportFormat(requested) ==
  CASE requested = "PNG" -> "PNG"
    [] requested = "JPEG" -> "JPEG"
    [] OTHER -> "PNG"

\* The try block of exportImages for format s[1] and folder s[2]: every
\* page is exported in the format selected, or a call fails into the catch
\* clause.
ExportPages(a, s) ==
  { End("value", <<"Error exporting images: ">> \o EngineMessage, a),
    End("value", <<"Exported ", ToString(a.pages), " pages as ", s[1],
                   " files to: ", s[2]>>,
        [a EXCEPT !.exported = ExportFormat(s[1])]) }

\* The ways running statements i.. of body can end in application a, val
\* being the value of the last expression statement so far.
RECURSIVE Exec(_, _, _, _)
Exec(a, body, i, val) ==
  IF i > Len(body) THEN {End("value", val, a)}
  ELSE LET st == body[i] IN
    CASE st.k = "lit" -> Exec(a, body, i + 1, DecodeLiteral(st.s).val)
      [] st.k = "cat" -> Exec(a, body, i + 1, val \o DecodeLiteral(st.s).val)
      [] st.k = "assign" -> Exec(a, body, i + 1, val)
      [] st.k = "ifNoDoc" ->
           IF a.docs = 0 THEN {End("value", DecodeLiteral(st.s).val, a)}
           ELSE Exec(a, body, i + 1, val)
      [] st.k = "app" ->
           {End("throwErr", EngineMessage, a)} \cup Exec(a, body, i + 1, val)
      [] st.k = "addDoc" ->
           {End("throwErr", EngineMessage, a)}
             \cup Exec([App(1, NewDocPages) EXCEPT !.exported = a.exported],
                       body, i + 1, val)
      [] st.k = "appTry" ->
           {End("value", DecodeLiteral(st.s).val \o EngineMessage, a)}
             \cup Exec(a, body, i + 1, val)
      [] st.k = "removePage" -> RemovePage(a, st.s)
      [] st.k = "addPage" -> AddPage(a)
      [] st.k = "dupPage" -> DuplicatePage(a, st.s)
      [] st.k = "ifPositive" ->
           IF st.s[2] \notin {"0", "undefined"}
           THEN {End("throwErr", EngineMessage, a)}
                  \cup Exec(a, body, i + 1, val)
           ELSE Exec(a, body, i + 1, val)
      [] st.k = "clause" -> Exec(a, body, i + 1, val)
      [] st.k = "ifSaved" -> IfSaved(a, st.s)
      [] st.k = "addColor" ->
           Exec(AddColor(a, st.s[1], st.s[2]), body, i + 1, val)
      [] st.k = "export" -> ExportPages(a, st.s)
      [] st.k = "throwErr" -> {End("throwErr", st.s, a)}
      [] st.k = "throwNull" -> {End("throwNull", <<>>, a)}
      [] OTHER -> Exec(a, body, i + 1, <<>>)

\* The run of the script ended without a value: `do script` raised.
Abort == [k |-> "abort", text |-> <<>>]

\* The sentinel string the guard's catch clause evaluates to.
Sentinel(msg) == <<"ERROR: ">> \o msg \o <<" (Line: ", "unknown", ")">>

\* A bridge that writes the script as it is handed over, without the guard.
WrapNothing(script) == [guard |-> FALSE, body |-> script]

\* The engine-level guard of executeInDesignScript around a script.
Wrap(script) == [guard |-> TRUE, body |-> script]

EmptyScript == [guard |-> FALSE, body |-> <<>>]

\* What `do script` of a wrapped script can give in application a: a
\* string, or Abort when the text does not compile or an exception leaves
\* the script; with it the application afterwards.  The catch clause reads
\* error.message, which itself raises when null was thrown.
RunScript(a, w) ==
  IF ~Parses(w.body) THEN {[out |-> Abort, app |-> a]}
  ELSE { [out |-> IF e.k = "value" THEN [k |-> "value", text |-> e.text]
                  ELSE IF w.guard /\ e.k = "throwErr"
                    THEN [k |-> "value", text |-> Sentinel(e.text)]
                  ELSE Abort,
          app |-> e.app] : e \in Exec(a, w.body, 1, <<>>) }

\* -------------------------------------------------------------- arguments
\* request.params.arguments: obj says whether there is an arguments object,
\* has which of its properties are set.
Args(obj, has, filePath, pageIndex, code) ==
  [obj |-> obj, has |-> has, filePath |-> filePath, pageIndex |-> pageIndex,
   code |-> code, content |-> <<>>, findText |-> <<>>, replaceText |-> <<>>,
   bleed |-> 0, spaceBefore |-> 0, colorModel |-> "", format |-> ""]

NoArgs == Args(FALSE, {}, <<>>, 0, <<>>)
EmptyArgs == Args(TRUE, {}, <<>>, 0, <<>>)

\* Arguments of the text operations.
TextArgs(has, content, findText, replaceText) ==
  [EmptyArgs EXCEPT !.has = has, !.content = content, !.findText = findText,
                    !.replaceText = replaceText]

\* Arguments with the properties of has, the others as they are in args.
With(args, has) == [args EXCEPT !.has = has]

\* The name a caller gives a style or a colour, the folder of an export and
\* the values of a colour.
CallerName == "S"
CallerFolder == "out"
CallerValues == "0, 0, 0, 100"

\* A bleed and a space before a caller asks for, in millimetres.
CallerBleed == 3
CallerSpace == 2

\* enum of colorModel and of format in the catalog.
ColorModels == {"CMYK", "RGB", "LAB"}
Formats == {"PNG", "JPEG", "TIFF", "GIF"}

\* Scripts a caller passes to execute_indesign_code.
CallerCodes ==
  { <<Lit(<<"ok">>)>>, <<Stmt("throwErr", <<"boom">>)>>,
    <<Stmt("throwNull", <<>>)>> }

\* File paths a caller passes to open_document.
CallerPaths == { <<"a", Quote, ".indd">> }

\* The arguments the model's callers send with each name.
ArgChoices(name) ==
  CASE name = "get_document_info" -> {NoArgs}
    [] name = "create_document" -> {NoArgs}
    [] name = "open_document" ->
         {Args(TRUE, {"filePath"}, f, 0, <<>>) : f \in CallerPaths}
    [] name = "delete_page" ->
         {EmptyArgs, Args(TRUE, {"pageIndex"}, <<>>, 0, <<>>)}
    [] name = "execute_indesign_code" ->
         {Args(TRUE, {"code"}, <<>>, 0, c) : c \in CallerCodes}
    [] OTHER -> {EmptyArgs}

\* The strings of at most n characters over the alphabet cs.
RECURSIVE Strings(_, _)
Strings(cs, n) ==
  IF n = 0 THEN {<<>>}
  ELSE LET shorter == Strings(cs, n - 1) IN
       shorter \cup {Append(s, c) : s \in shorter, c \in cs}

\* Texts a caller passes as content, findText or replaceText: ordinary
\* characters, quote characters and line breaks.
CallerTexts == Strings({"a", Quote, Newline}, MaxLen)

\* Scripts a caller passes to execute_indesign_code, one request at a time.
SeqCodes ==
  CallerCodes \cup { <<Lit(<<" ", "ok", " ">>)>>, <<Stmt("syntax", <<>>)>> }

\* The arguments a caller sends with each name, one request at a time; the
\* operations the model does not render are called without an arguments
\* object.
SeqChoices(name) ==
  CASE name = "get_document_info" -> {NoArgs, EmptyArgs}
    [] name = "create_document" ->
         {NoArgs, EmptyArgs} \cup
         {[With(EmptyArgs, {"bleed"}) EXCEPT !.bleed = n] :
            n \in {0, CallerBleed}}
    [] name = "open_document" ->
         {Args(TRUE, {"filePath"}, f, 0, <<>>) :
            f \in CallerPaths \cup {<<"a.indd">>}}
    [] name = "delete_page" ->
         {EmptyArgs} \cup
         {Args(TRUE, {"pageIndex"}, <<>>, n, <<>>) : n \in -1..MaxPages}
    [] name = "duplicate_page" ->
         {EmptyArgs} \cup
         {Args(TRUE, {"pageIndex"}, <<>>, n, <<>>) : n \in -1..MaxPages}
    [] name = "add_page" -> {NoArgs, EmptyArgs}
    [] name = "save_document" ->
         {NoArgs, EmptyArgs} \cup
         {Args(TRUE, {"filePath"}, f, 0, <<>>) : f \in {<<>>, <<"a.indd">>}}
    [] name = "create_paragraph_style" ->
         {EmptyArgs, With(EmptyArgs, {"name"})} \cup
         {[With(EmptyArgs, {"name", "spaceBefore"}) EXCEPT !.spaceBefore = n] :
            n \in {0, CallerSpace}}
    [] name = "create_color_swatch" ->
         {EmptyArgs, With(EmptyArgs, {"name", "colorValues"})} \cup
         {[With(EmptyArgs, {"name", "colorValues", "colorModel"})
             EXCEPT !.colorModel = m] : m \in ColorModels}
    [] name = "export_images" ->
         {EmptyArgs, With(EmptyArgs, {"folderPath"})} \cup
         {[With(EmptyArgs, {"folderPath", "format"}) EXCEPT !.format = m] :
            m \in Formats}
    [] name \in {"list_color_swatches", "list_layers", "view_document"} ->
         {NoArgs, EmptyArgs}
    [] name = "execute_indesign_code" ->
         {EmptyArgs} \cup {Args(TRUE, {"code"}, <<>>, 0, c) : c \in SeqCodes}
    [] name = "create_text_frame" ->
         {EmptyArgs} \cup
         {TextArgs({"content"}, c, <<>>, <<>>) : c \in CallerTexts}
    [] name = "edit_text_frame" ->
         {EmptyArgs, TextArgs({"frameIndex"}, <<>>, <<>>, <<>>)} \cup
         {TextArgs({"frameIndex", "content"}, c, <<>>, <<>>) :
            c \in CallerTexts}
    [] name = "find_replace_text" ->
         {EmptyArgs} \cup
         {TextArgs({"findText", "replaceText"}, <<>>, t, <<"a">>) :
            t \in Strings({"a", Quote, Newline}, 1)}
    [] OTHER -> {NoArgs}

\* ${x} of a template literal for a string-valued property.
InterpStr(args, f, v) == IF f \in args.has THEN v ELSE <<"undefined">>

\* ${x} of a template literal for a number-valued property.
InterpNum(args, f, n) ==
  IF f \in args.has THEN <<ToString(n)>> ELSE <<"undefined">>

\* s.replace(/"/g, '\\"'): a backslash before every quote character.
RECURSIVE EscapeQuotes(_)
EscapeQuotes(s) ==
  IF s = <<>> THEN <<>>
  ELSE (IF Head(s) = Quote THEN <<Backslash, Quote>> ELSE <<Head(s)>>)
         \o EscapeQuotes(Tail(s))

\* s.replace(/\n/g, '\\n'): every line break as backslash, n.
RECURSIVE EscapeNewlines(_)
EscapeNewlines(s) ==
  IF s = <<>> THEN <<>>
  ELSE (IF Head(s) = Newline THEN <<Backslash, "n">> ELSE <<Head(s)>>)
         \o EscapeNewlines(Tail(s))

\* An escaping that forgets the line breaks.
EscapeContentQuotesOnly(s) == EscapeQuotes(s)

\* The escaping of content in createTextFrame and editTextFrame.
EscapeContent(s) == EscapeNewlines(EscapeQuotes(s))

\* What a template's `${x ? ... : ...}` takes for true: a number other than
\* 0, a string other than the empty one; an absent property is undefined.
TruthyNum(args, f, n) == f \in args.has /\ n # 0
TruthyStr(args, f, v) == f \in args.has /\ v # <<>>

\* `x = d` in a destructuring: the default d for an absent property.
Default(args, f, v, d) == IF f \in args.has THEN v ELSE d

\* content.substring(0, 50) and '...' after a longer content.
PreviewLen == 50
Preview(s) ==
  IF Len(s) > PreviewLen THEN SubSeq(s, 1, PreviewLen) \o <<"...">> ELSE s

\* --------------------------------------------------------------- renderer
getDocumentInfo ==
  <<Stmt("ifNoDoc", <<"No document open">>), Stmt("app", <<>>),
    Lit(<<"=== DOCUMENT INFORMATION ===">>)>>

createDocument(args) ==
  <<Stmt("addDoc", <<>>),
    Stmt("ifPositive",
         <<"bleed", ToString(Default(args, "bleed", args.bleed, 0))>>),
    Lit(<<"Document created: ">>)>>

openDocument(args) ==
  LET filePath == InterpStr(args, "filePath", args.filePath) IN
  <<Stmt("appTry", <<"Error opening document: ">>), Lit(filePath),
    Lit(<<"File not found: ">> \o filePath)>>

\* A template that lacks the test for open documents.
deletePageUnguarded(args) ==
  <<Stmt("removePage", InterpNum(args, "pageIndex", args.pageIndex))>>

deletePage(args) ==
  LET pageIndex == InterpNum(args, "pageIndex", args.pageIndex) IN
  <<Stmt("ifNoDoc", <<"No document open">>), Stmt("removePage", pageIndex)>>

createTextFrame(args) ==
  <<Stmt("ifNoDoc", <<"No document open. Please create a document first.">>),
    Stmt("appTry", <<"Error creating text frame: ">>),
    Stmt("assign", EscapeContent(args.content)),
    Lit(<<"Text frame created on page ", "1", " with content: ">>),
    Stmt("cat", Preview(args.content))>>

editTextFrame(args) ==
  <<Stmt("ifNoDoc", <<"No document open">>),
    Stmt("appTry", <<"Error editing text frame: ">>)>>
  \o (IF "content" \in args.has
      THEN <<Stmt("assign", EscapeContent(args.content))>> ELSE <<>>)
  \o <<Lit(<<"Text frame ">> \o InterpNum(args, "frameIndex", 0)
             \o <<" on page ", "1", " updated successfully">>)>>

findReplaceText(args) ==
  <<Stmt("ifNoDoc", <<"No document open">>),
    Stmt("appTry", <<"Error in find/replace: ">>),
    Stmt("assign", EscapeQuotes(args.findText)),
    Stmt("assign", EscapeQuotes(args.replaceText)),
    Lit(<<"Found and replaced ", "0", " instances of '">>),
    Stmt("cat", args.findText), Stmt("cat", <<"' with '">>),
    Stmt("cat", args.replaceText), Stmt("cat", <<"'">>)>>

saveDocument(args) ==
  <<Stmt("ifNoDoc", <<"No document open to save">>)>>
  \o (IF TruthyStr(args, "filePath", args.filePath)
      THEN <<Stmt("appTry", <<"Error saving document: ">>),
             Stmt("clause", <<"filePath">> \o args.filePath),
             Lit(<<"Document saved as: ">> \o args.filePath)>>
      ELSE <<Stmt("ifSaved",
               <<"Document has never been saved. Please provide a file path.">>)>>)

addPage(args) ==
  <<Stmt("ifNoDoc", <<"No document open">>), Stmt("addPage", <<>>)>>

duplicatePage(args) ==
  <<Stmt("ifNoDoc", <<"No document open">>),
    Stmt("dupPage", InterpNum(args, "pageIndex", args.pageIndex))>>

createParagraphStyle(args) ==
  LET name == InterpStr(args, "name", <<CallerName>>) IN
  <<Stmt("ifNoDoc", <<"No document open">>),
    Stmt("appTry", <<"Error creating paragraph style: ">>)>>
  \o (IF TruthyNum(args, "spaceBefore", args.spaceBefore)
      THEN <<Stmt("clause", <<"spaceBefore", ToString(args.spaceBefore), "mm">>)>>
      ELSE <<>>)
  \o <<Lit(<<"Paragraph style '">> \o name \o <<"' created successfully">>)>>

createColorSwatch(args) ==
  LET name == InterpStr(args, "name", <<CallerName>>)
      colorModel == Default(args, "colorModel", args.colorModel, "CMYK")
  IN
  <<Stmt("ifNoDoc", <<"No document open">>),
    Stmt("appTry", <<"Error creating color swatch: ">>),
    Stmt("addColor", <<colorModel>> \o name),
    Lit(<<"Color swatch '">> \o name
          \o <<"' created (", colorModel, ": ", CallerValues, ")">>)>>

listColorSwatches ==
  <<Stmt("ifNoDoc", <<"No document open">>), Stmt("app", <<>>),
    Lit(<<"=== COLOR SWATCHES ===">>)>>

exportImages(args) ==
  LET folderPath == InterpStr(args, "folderPath", <<CallerFolder>>)
      format == Default(args, "format", args.format, "PNG")
  IN
  <<Stmt("ifNoDoc", <<"No document open">>),
    Stmt("export", <<format>> \o folderPath)>>

viewDocument ==
  <<Stmt("ifNoDoc", <<"No document open">>), Stmt("app", <<>>),
    Lit(<<"=== DOCUMENT VIEW ===">>)>>

listLayers ==
  <<Stmt("ifNoDoc", <<"No document open">>), Stmt("app", <<>>),
    Lit(<<"=== DOCUMENT LAYERS ===">>)>>

executeInDesignCode(args) ==
  IF "code" \in args.has THEN args.code
  ELSE <<Stmt("ident", <<"undefined">>)>>

\* The script the routed method hands to executeInDesignScript.
Render(name, args) ==
  CASE name = "get_document_info" -> getDocumentInfo
    [] name = "create_document" -> createDocument(args)
    [] name = "open_document" -> openDocument(args)
    [] name = "delete_page" -> deletePage(args)
    [] name = "create_text_frame" -> createTextFrame(args)
    [] name = "edit_text_frame" -> editTextFrame(args)
    [] name = "find_replace_text" -> findReplaceText(args)
    [] name = "save_document" -> saveDocument(args)
    [] name = "add_page" -> addPage(args)
    [] name = "duplicate_page" -> duplicatePage(args)
    [] name = "create_paragraph_style" -> createParagraphStyle(args)
    [] name = "create_color_swatch" -> createColorSwatch(args)
    [] name = "list_color_swatches" -> listColorSwatches
    [] name = "export_images" -> exportImages(args)
    [] name = "view_document" -> viewDocument
    [] name = "list_layers" -> listLayers
    [] OTHER -> executeInDesignCode(args)

\* ------------------------------------------------------------------ state
VARIABLES
  pc,       \* where each request stands
  rq,       \* each request's process, name and arguments
  fs,       \* the files of the install directory, by path
  mq,       \* each process's queue of continuations ready to run
  cur,      \* the request whose synchronous call blocks the process, or 0
  loaded,   \* what the application loaded for each request's outer call
  outer,    \* how each request's execSync ended
  outcome,  \* how executeInDesignScript stands: a value or a thrown error
  resp,     \* the response sent to the caller
  nWrites,  \* temporary files each request wrote
  nCalls,   \* outer automation commands each request issued
  app,      \* the application: open documents, pages of the active one
  raw       \* the standard output of each request's outer call

vars == <<pc, rq, fs, mq, cur, loaded, outer, outcome, resp, nWrites, nCalls,
          app, raw>>

\* path.join(__dirname, 'temp_script.jsx'), as computed by invocation r:
\* nothing of the invocation enters the name.
TempScript(r) == "temp_script.jsx"

Paths == {TempScript(r) : r \in Reqs}

NoFile == [exists |-> FALSE, creator |-> 0, owner |-> 0, content |-> EmptyScript]
NoReq == [proc |-> 0, name |-> "", args |-> NoArgs]
NotLoaded == [k |-> "none", own |-> FALSE]
NoOutcome == [k |-> "none", text |-> <<>>]
NoResp == [kind |-> "none", code |-> "", text |-> <<>>]

Init ==
  /\ pc = [r \in Reqs |-> "free"]
  /\ rq = [r \in Reqs |-> NoReq]
  /\ fs = [f \in Paths |-> NoFile]
  /\ mq = [p \in Procs |-> <<>>]
  /\ cur = [p \in Procs |-> 0]
  /\ loaded = [r \in Reqs |-> NotLoaded]
  /\ outer = [r \in Reqs |-> "none"]
  /\ outcome = [r \in Reqs |-> NoOutcome]
  /\ resp = [r \in Reqs |-> NoResp]
  /\ nWrites = [r \in Reqs |-> 0]
  /\ nCalls = [r \in Reqs |-> 0]
  /\ app \in AppStates
  /\ raw = [r \in Reqs |-> <<>>]

\* ---------------------------------------------------------------- helpers
\* String.prototype.trim on a token string.
RECURSIVE TrimLeft(_)
TrimLeft(s) ==
  IF s # <<>> /\ Head(s) \in Whitespace THEN TrimLeft(Tail(s)) ELSE s

RECURSIVE TrimRight(_)
TrimRight(s) ==
  IF s # <<>> /\ s[Len(s)] \in Whitespace
  THEN TrimRight(SubSeq(s, 1, Len(s) - 1)) ELSE s

Trim(s) == TrimRight(TrimLeft(s))

\* formatResponse(result, operation): one text content block.
formatResponse(result, operation) ==
  [kind |-> "content", code |-> "", text |-> <<operation, ": ">> \o result]

\* The catch clause of the request handler: whatever was thrown in the
\* switch is thrown again as an InternalError McpError.
HandlerCatch(name, message) ==
  [kind |-> "error", code |-> "InternalError",
   text |-> <<"Error executing tool ", name, ": ">> \o message]

\* The message of the McpError thrown by the default case of the switch.
UnknownToolMessage(name) == <<"Unknown tool: ", name>>

\* The message of the TypeError raised by reading a property of undefined.
TypeErrorMessage == <<"Cannot read properties of undefined">>

\* A call that returns the output as it comes, without result.trim().
AppleScriptUntrimmed(stdout) == [k |-> "value", text |-> stdout]

\* executeAppleScript: the trimmed stdout of osascript, or an Error whose
\* message carries the diagnostic of execSync's failure.
AppleScriptValue(stdout) == [k |-> "value", text |-> Trim(stdout)]

\* A faulty catch clause, which returns the diagnostic as the result
\* instead of throwing.
AppleScriptSwallowed(diag) == [k |-> "value", text |-> <<diag>>]

AppleScriptThrown(diag) ==
  [k |-> "thrown", text |-> <<"AppleScript execution failed: ", diag>>]

\* The diagnostics of execSync's failures.
SpawnFailure == "spawnSync /bin/sh ENOENT"
NonZeroExit == "Command failed: osascript"
TimedOut == "spawnSync /bin/sh ETIMEDOUT"

\* An end of execSync: exit is "stdout" with the output of osascript, or
\* the diagnostic of the failure.
ExecEnd(exit, stdout) == [exit |-> exit, stdout |-> stdout]

\* executeAppleScript around an end of execSync.
executeAppleScript(x) ==
  IF x.exit = "stdout" THEN AppleScriptValue(x.stdout)
  ELSE AppleScriptThrown(x.exit)

\* The continuation of request r becomes ready in process p.
Ready(p, r) == Append(mq[p], r)

\* What the caller gets once executeInDesignScript has settled with o: the
\* routed method's formatResponse of the result, or the handler's catch of
\* the error.
Respond(name, o) ==
  IF o.k = "value" THEN formatResponse(o.text, Label(name))
  ELSE HandlerCatch(name, o.text)

\* ---------------------------------------------------------------- actions
\* A tools/call message is read from stdin by process p.  Messages are read
\* between turns of the event loop: nothing of p is ready or blocked, or the
\* messages of the same chunk have only been queued.  The request takes the
\* first free place of the model.
Arrive(p, r, name, args) ==
  /\ pc[r] = "free"
  /\ \A s \in Reqs : s < r => pc[s] # "free"
  /\ cur[p] = 0
  /\ \A i \in 1..Len(mq[p]) : pc[mq[p][i]] = "queued"
  /\ pc' = [pc EXCEPT ![r] = "queued"]
  /\ rq' = [rq EXCEPT ![r] = [proc |-> p, name |-> name, args |-> args]]
  /\ mq' = [mq EXCEPT ![p] = Ready(p, r)]
  /\ UNCHANGED <<fs, cur, loaded, outer, outcome, resp, nWrites, nCalls,
                 app, raw>>

\* The file writeFileSync(tempScript, wrappedScript) of request r leaves.
WriteFile(old, r, script) ==
  [exists |-> TRUE, creator |-> IF old.exists THEN old.creator ELSE r,
   owner |-> r, content |-> Wrap(script)]

\* What a writeFileSync that failed after it had opened the file leaves at
\* the path: a file, cut short, that holds no request's payload.
Leftover == [NoFile EXCEPT !.exists = TRUE]

\* The files a failing writeFileSync can leave at a path that held old: the
\* open failed and nothing changed, or the write failed after the open.
WriteFailures(old) == {old, Leftover}

\* The error a failing writeFileSync throws; it is thrown before the try
\* block of executeInDesignScript is entered.
WriteThrown ==
  [k |-> "thrown", text |-> <<"ENOSPC: no space left on device, write">>]

\* A faulty outer call, asynchronous as child_process.exec is: no request
\* holds the process while osascript runs.
ExecAsync(r) == 0

\* execSync is synchronous: from the spawn of osascript to its end the
\* process runs nothing else, the request r holds it.
ExecSyncHolds(r) == r

\* The parameters a method of which the routed method calls while it
\* renders: replace of a string, join of an array.
Replaced(name) ==
  CASE name = "create_text_frame" -> {"content"}
    [] name = "find_replace_text" -> {"findText", "replaceText"}
    [] name = "create_color_swatch" -> {"colorValues"}
    [] OTHER -> {}

\* What stops the switch before a routed method reaches the bridge: no case
\* for the name, or a property read of an arguments object that is not
\* there.  <<>> when nothing does.
EarlyError(name, args) ==
  IF ~Routed(name) THEN UnknownToolMessage(name)
  ELSE IF ReadsArgs(name) /\ ~args.obj THEN TypeErrorMessage
  ELSE IF ~(Replaced(name) \subseteq args.has) THEN TypeErrorMessage
  ELSE <<>>

\* A bridge that, when osascript cannot be spawned, puts the request back
\* to be run again.
RetryAfterSpawnFailure == "queued"

\* Where a request stands after execSync failed to spawn: the error is
\* thrown to executeInDesignScript, whose cleanup waits for its turn.
AfterSpawnFailure == "awaitExec"

\* The handler of the head request runs up to the outer call: the switch,
\* the routed method's rendering, executeInDesignScript's writeFileSync,
\* which can fail and then ends the request, and the start of execSync,
\* which blocks the process or fails to spawn.
HandlerStart(p) ==
  /\ cur[p] = 0
  /\ mq[p] # <<>>
  /\ LET r == Head(mq[p])
         name == rq[r].name
         args == rq[r].args
     IN
     /\ pc[r] = "queued"
     /\ IF EarlyError(name, args) # <<>>
        THEN /\ resp' = [resp EXCEPT ![r] =
                           HandlerCatch(name, EarlyError(name, args))]
             /\ pc' = [pc EXCEPT ![r] = "done"]
             /\ mq' = [mq EXCEPT ![p] = Tail(@)]
             /\ UNCHANGED <<fs, cur, outer, outcome, nWrites, nCalls>>
        ELSE \/ /\ fs' = [fs EXCEPT ![TempScript(r)] =
                            WriteFile(@, r, Render(name, args))]
                /\ nWrites' = [nWrites EXCEPT ![r] = @ + 1]
                /\ nCalls' = [nCalls EXCEPT ![r] = @ + 1]
                /\ UNCHANGED resp
                /\ \/ /\ pc' = [pc EXCEPT ![r] = "spawned"]
                      /\ cur' = [cur EXCEPT ![p] = ExecSyncHolds(r)]
                      /\ mq' = [mq EXCEPT ![p] = Tail(@)]
                      /\ UNCHANGED <<outer, outcome>>
                   \/ /\ outcome' = [outcome EXCEPT ![r] =
                             executeAppleScript(ExecEnd(SpawnFailure, <<>>))]
                      /\ outer' = [outer EXCEPT ![r] = SpawnFailure]
                      /\ pc' = [pc EXCEPT ![r] = AfterSpawnFailure]
                      /\ mq' = [mq EXCEPT ![p] = Append(Tail(@), r)]
                      /\ UNCHANGED cur
             \/ /\ \E f \in WriteFailures(fs[TempScript(r)]) :
                     fs' = [fs EXCEPT ![TempScript(r)] = f]
                /\ outcome' = [outcome EXCEPT ![r] = WriteThrown]
                /\ resp' = [resp EXCEPT ![r] =
                              HandlerCatch(name, WriteThrown.text)]
                /\ pc' = [pc EXCEPT ![r] = "done"]
                /\ mq' = [mq EXCEPT ![p] = Tail(@)]
                /\ UNCHANGED <<cur, outer, nWrites, nCalls>>
  /\ UNCHANGED <<rq, loaded, app, raw>>

\* The guarded payload rendered for request r.
PayloadOf(r) == Wrap(Render(rq[r].name, rq[r].args))

\* What the application loads for request r when told `do script POSIX
\* file "<tempScript>"`: the file f at that path as it is then, which holds
\* the payload rendered for r or something else.
AppLoad(r, f) ==
  IF f.exists THEN [k |-> "script", own |-> f.content = PayloadOf(r)]
  ELSE [k |-> "missing", own |-> FALSE]

\* An end of execSync with the application as it is then.
Ended(x, a) == [x |-> x, app |-> a]

\* How execSync can end once the application, in state a, has loaded file
\* f: a non-zero exit of osascript (the file is gone, the script raised),
\* the script's value on stdout, or the 30 s timeout, the script having run
\* or not.
LoadedOutcomes(a, f) ==
  IF f.exists
  THEN LET runs == RunScript(a, f.content) IN
       { Ended(IF e.out.k = "value"
               THEN ExecEnd("stdout", e.out.text \o <<Newline>>)
               ELSE ExecEnd(NonZeroExit, <<>>), e.app) : e \in runs }
       \cup {Ended(ExecEnd(TimedOut, <<>>), e.app) : e \in runs}
       \cup {Ended(ExecEnd(TimedOut, <<>>), a)}
  ELSE {Ended(ExecEnd(NonZeroExit, <<>>), a), Ended(ExecEnd(TimedOut, <<>>), a)}

\* How execSync can end before the application loads anything: the
\* timeout, or a non-zero exit (the application cannot be reached).
UnloadedOutcomes == {ExecEnd(TimedOut, <<>>), ExecEnd(NonZeroExit, <<>>)}

\* execSync returns or throws; executeAppleScript's promise settles and the
\* rest of executeInDesignScript waits for its turn.
ExecReturn(p) ==
  /\ cur[p] # 0
  /\ LET r == cur[p]
         f == fs[TempScript(r)]
     IN
     /\ pc[r] = "spawned"
     /\ \/ /\ \E x \in UnloadedOutcomes :
                /\ outcome' = [outcome EXCEPT ![r] = executeAppleScript(x)]
                /\ outer' = [outer EXCEPT ![r] = x.exit]
                /\ raw' = [raw EXCEPT ![r] = x.stdout]
           /\ UNCHANGED <<loaded, app>>
        \/ /\ \E e \in LoadedOutcomes(app, f) :
                /\ outcome' = [outcome EXCEPT ![r] = executeAppleScript(e.x)]
                /\ outer' = [outer EXCEPT ![r] = e.x.exit]
                /\ raw' = [raw EXCEPT ![r] = e.x.stdout]
                /\ app' = e.app
           /\ loaded' = [loaded EXCEPT ![r] = AppLoad(r, f)]
     /\ pc' = [pc EXCEPT ![r] = "awaitExec"]
     /\ cur' = [cur EXCEPT ![p] = 0]
     /\ mq' = [mq EXCEPT ![p] = Ready(p, r)]
  /\ UNCHANGED <<rq, fs, resp, nWrites, nCalls>>

\* A faulty cleanup, placed after the await inside the try block: it runs
\* only when the outer call returned.
ExistsSyncOnSuccess(r) == fs[TempScript(r)].exists /\ outcome[r].k = "value"

\* existsSync(tempScript) in the finally block of request r, which runs
\* however the try block ended.
ExistsSync(r) == fs[TempScript(r)].exists

\* A bridge with no finally block: executeInDesignScript settles as its try
\* block ended and the temporary file stays.
FinallyWithoutCleanup(p) ==
  /\ cur[p] = 0
  /\ mq[p] # <<>>
  /\ LET r == Head(mq[p]) IN
     /\ pc[r] = "awaitExec"
     /\ mq' = [mq EXCEPT ![p] = Tail(@)]
     /\ pc' = [pc EXCEPT ![r] = "done"]
     /\ resp' = [resp EXCEPT ![r] = Respond(rq[r].name, outcome[r])]
  /\ UNCHANGED <<rq, fs, cur, loaded, outer, outcome, nWrites, nCalls, app, raw>>

\* The finally block: existsSync(tempScript).  With no file there the block
\* is over, executeInDesignScript settles as the try block ended and the
\* routed method and the handler pass that on to the caller.
Finally(p) ==
  /\ cur[p] = 0
  /\ mq[p] # <<>>
  /\ LET r == Head(mq[p]) IN
     /\ pc[r] = "awaitExec"
     /\ mq' = [mq EXCEPT ![p] = Tail(@)]
     /\ IF ExistsSync(r)
        THEN /\ pc' = [pc EXCEPT ![r] = "unlinking"]
             /\ cur' = [cur EXCEPT ![p] = r]
             /\ UNCHANGED resp
        ELSE /\ pc' = [pc EXCEPT ![r] = "done"]
             /\ resp' = [resp EXCEPT ![r] = Respond(rq[r].name, outcome[r])]
             /\ UNCHANGED cur
  /\ UNCHANGED <<rq, fs, loaded, outer, outcome, nWrites, nCalls, app, raw>>

\* The error unlinkSync throws when the file is gone.
UnlinkThrown ==
  [k |-> "thrown", text |-> <<"ENOENT: no such file or directory, unlink">>]

\* The finally block: unlinkSync(tempScript), which throws when the file is
\* gone; an error thrown in finally replaces the try block's completion.
Unlink(p) ==
  /\ cur[p] # 0
  /\ LET r == cur[p]
         o == IF fs[TempScript(r)].exists THEN outcome[r] ELSE UnlinkThrown
     IN
     /\ pc[r] = "unlinking"
     /\ fs' = [fs EXCEPT ![TempScript(r)] = NoFile]
     /\ outcome' = [outcome EXCEPT ![r] = o]
     /\ resp' = [resp EXCEPT ![r] = Respond(rq[r].name, o)]
     /\ pc' = [pc EXCEPT ![r] = "done"]
     /\ cur' = [cur EXCEPT ![p] = 0]
  /\ UNCHANGED <<rq, mq, loaded, outer, nWrites, nCalls, app, raw>>

\* The response has been sent; the request is discarded.
Retire(r) ==
  /\ pc[r] = "done"
  /\ pc' = [pc EXCEPT ![r] = "free"]
  /\ rq' = [rq EXCEPT ![r] = NoReq]
  /\ loaded' = [loaded EXCEPT ![r] = NotLoaded]
  /\ outer' = [outer EXCEPT ![r] = "none"]
  /\ outcome' = [outcome EXCEPT ![r] = NoOutcome]
  /\ resp' = [resp EXCEPT ![r] = NoResp]
  /\ nWrites' = [nWrites EXCEPT ![r] = 0]
  /\ nCalls' = [nCalls EXCEPT ![r] = 0]
  /\ raw' = [raw EXCEPT ![r] = <<>>]
  /\ UNCHANGED <<fs, mq, cur, app>>

Next ==
  \/ \E p \in Procs, r \in Reqs, name \in Names :
       \E args \in ArgChoices(name) : Arrive(p, r, name, args)
  \/ \E p \in Procs : HandlerStart(p)
  \/ \E p \in Procs : ExecReturn(p)
  \/ \E p \in Procs : Finally(p)
  \/ \E p \in Procs : Unlink(p)
  \/ \E r \in Reqs : Retire(r)

Spec == Init /\ [][Next]_vars

\* The scheduling of a server process: a ready continuation gets its turn
\* of the event loop, and a synchronous call (execSync with its timeout,
\* unlinkSync) returns.
Fairness ==
  \A p \in Procs :
    /\ WF_vars(HandlerStart(p))
    /\ WF_vars(ExecReturn(p))
    /\ WF_vars(Finally(p))
    /\ WF_vars(Unlink(p))

FairSpec == Spec /\ Fairness

\* One server, with requests that arrive while earlier ones are under way.
NextOne ==
  \/ \E r \in Reqs, name \in Names :
       \E args \in ArgChoices(name) : Arrive(1, r, name, args)
  \/ HandlerStart(1)
  \/ ExecReturn(1)
  \/ Finally(1)
  \/ Unlink(1)
  \/ \E r \in Reqs : Retire(r)

FairSpecOne == Init /\ [][NextOne]_vars /\ Fairness

\* The operations that add a page to the active document.
PageAdders == {"add_page", "duplicate_page"}

\* One server that is sent one request at a time, with every name of the
\* catalog and of the switch and every kind of arguments; a page is asked
\* for only while the document has fewer than MaxPages.
NextSeq ==
  \/ \E name \in Catalog \cup SwitchCases \cup {UnknownName} :
       \E args \in SeqChoices(name) :
         /\ name \in PageAdders => app.pages < MaxPages
         /\ Arrive(1, 1, name, args)
  \/ HandlerStart(1)
  \/ ExecReturn(1)
  \/ Finally(1)
  \/ Unlink(1)
  \/ Retire(1)

SpecSeq == Init /\ [][NextSeq]_vars

\* ----------------------------------------------------------------- claims
Has(text, tok) == \E i \in 1..Len(text) : text[i] = tok

\* The request went through executeInDesignScript up to its return.
Returned(r) == pc[r] = "done" /\ nWrites[r] > 0

\* A temporary file that request r created or last wrote is still there.
FileOf(r) == \E f \in Paths : fs[f].exists /\ (fs[f].owner = r \/ fs[f].creator = r)

\* The text returned by the outer call carries the guard's sentinel prefix.
IsSentinel(text) == text # <<>> /\ Head(text) = "ERROR: "

\* The caller got an error response of the given code.
ErrorResponse(r, code) == resp[r].kind = "error" /\ resp[r].code = code

\* C1: whenever executeInDesignScript has written its temporary file and
\* returned to its caller, however the outer call ended (result text,
\* sentinel text, spawn failure, non-zero exit, timeout), no temporary file
\* that this invocation created or wrote exists any more.
C1_NoLeftoverFile == \A r \in Reqs : Returned(r) => ~FileOf(r)

C1_Witness ==
  \E r \in Reqs :
    /\ Returned(r)
    /\ outer[r] = TimedOut
    /\ \E s \in Reqs : Returned(s) /\ outer[s] = "stdout" /\ IsSentinel(outcome[s].text)

\* C2: when the outer call succeeds and its text starts with "ERROR: ", the
\* caller gets an internal-error response that names the operation and
\* carries the diagnostic, never a text content block.
C2_SentinelIsError ==
  \A r \in Reqs :
    (pc[r] = "done" /\ outcome[r].k = "value" /\ IsSentinel(outcome[r].text))
      => /\ ErrorResponse(r, "InternalError")
         /\ Has(resp[r].text, rq[r].name)

\* C3: a request for a name outside the catalog ends with a method-not-found
\* error, having written no temporary file and issued no outer call.
C3_UnknownIsNotFound ==
  \A r \in Reqs :
    (pc[r] = "done" /\ ~Routed(rq[r].name))
      => /\ ErrorResponse(r, "MethodNotFound")
         /\ nWrites[r] = 0
         /\ nCalls[r] = 0

\* The request lacks a parameter its catalog entry requires.
MissingRequired(r) ==
  /\ pc[r] # "free"
  /\ Routed(rq[r].name)
  /\ rq[r].args.obj
  /\ ~(Required(rq[r].name) \subseteq rq[r].args.has)

\* C4: a request that lacks a required parameter of its operation never
\* writes a temporary file and never issues an outer call.
C4_MissingRequiredRejected ==
  \A r \in Reqs : MissingRequired(r) => nWrites[r] = 0 /\ nCalls[r] = 0

\* C5: any two invocations of the Transport, in the same or in different
\* server processes, write their payloads to different paths.
C5_UniquePaths ==
  \A r, s \in Reqs :
    (r # s /\ nWrites[r] > 0 /\ nWrites[s] > 0) => TempScript(r) # TempScript(s)

\* C6: requests that overlap do not interfere through the temporary file:
\* what the application loads for a request's outer call is the payload
\* rendered for that request, and no request's cleanup fails on a file
\* another one removed.
C6_NoInterference ==
  \A r \in Reqs :
    /\ loaded[r].k # "none" =>
         (loaded[r].k = "script" /\ loaded[r].own)
    /\ outcome[r] # UnlinkThrown

\* The outer calls of process p that are in flight.
InFlight(p) == {r \in Reqs : rq[r].proc = p /\ pc[r] = "spawned"}

\* C7: a server process never has more than one outer automation call in
\* flight, whatever the arrival pattern of its requests.
C7_OneInFlight == \A p \in Procs : Cardinality(InFlight(p)) <= 1

C7_Witness ==
  \E p \in Procs : \E r, s \in Reqs :
    /\ r # s
    /\ rq[r].proc = p /\ rq[s].proc = p
    /\ pc[r] = "spawned"
    /\ pc[s] = "queued"

\* C8: a request whose outer call ran into the timeout ends with an error
\* response (not a text content block, sentinel or not), and no temporary
\* file of it is left.
C8_TimeoutIsTransportError ==
  \A r \in Reqs :
    (pc[r] = "done" /\ outer[r] = TimedOut)
      => /\ ErrorResponse(r, "InternalError")
         /\ Has(resp[r].text, rq[r].name)
         /\ ~FileOf(r)

C8_Witness ==
  \E r \in Reqs :
    /\ pc[r] = "done"
    /\ outer[r] = TimedOut
    /\ loaded[r].k = "script"
    /\ Has(resp[r].text, TimedOut)

\* C9: every failure of the outer call (spawn failure, non-zero exit,
\* timeout) reaches the caller as an internal-error response whose message
\* contains the operation name and the diagnostic of that failure.
C9_TransportFailureReported ==
  \A r \in Reqs :
    (pc[r] = "done" /\ outer[r] \in {SpawnFailure, NonZeroExit, TimedOut})
      => /\ ErrorResponse(r, "InternalError")
         /\ Has(resp[r].text, rq[r].name)
         /\ Has(resp[r].text, outer[r])

\* C10: whenever the application has loaded a request's own payload and the
\* outer call did not time out, the guarded script gave a string: the outer
\* call returned text.
C10_GuardAlwaysReturns ==
  \A r \in Reqs :
    (loaded[r].k = "script" /\ loaded[r].own /\ outer[r] # TimedOut)
      => outcome[r].k = "value" \/ outcome[r] = UnlinkThrown

\* The outer call of request r returned text of the script rendered for r.
RanOwn(r) == loaded[r].k = "script" /\ loaded[r].own /\ outer[r] = "stdout"

\* C11: when the foreign engine raises while a request's payload runs, the
\* outer call returns the guard's sentinel string and the caller gets an
\* error response that carries the engine's message, not a text content
\* block.
C11_EngineErrorReported ==
  \A r \in Reqs :
    (pc[r] = "done" /\ RanOwn(r) /\ Has(raw[r], EngineMessage[1]))
      => /\ IsSentinel(Trim(raw[r]))
         /\ ErrorResponse(r, "InternalError")
         /\ Has(resp[r].text, EngineMessage[1])

\* The string literals a script assigns to a frame's contents or to the
\* find/change preferences.
Assigned(body) == {body[i].s : i \in {j \in 1..Len(body) : body[j].k = "assign"}}

\* The temporary file holds the payload of a create_text_frame or
\* edit_text_frame request that carries a content.
ContentFile(f) ==
  /\ fs[f].exists
  /\ fs[f].owner # 0
  /\ rq[fs[f].owner].name \in {"create_text_frame", "edit_text_frame"}
  /\ "content" \in rq[fs[f].owner].args.has

C13_NoInjection ==
  \A f \in Paths :
    (/\ fs[f].exists
     /\ fs[f].owner # 0
     /\ rq[fs[f].owner].name # "execute_indesign_code")
      => Parses(fs[f].content.body)

\* Request r moves on to stage st in this step.
Enters(r, st) == pc[r] # st /\ pc'[r] = st

PassThrough(r) ==
  rq[r].name = "execute_indesign_code" /\ "code" \in rq[r].args.has

\* The outer call of request r, in flight, runs into the timeout.
TimesOut(r) == ExecReturn(rq[r].proc) /\ outer'[r] = TimedOut

\* C15: a request of execute_indesign_code goes through the bridge as any
\* other: the file it writes holds the caller's code, unchanged, inside the
\* guard; while its outer call is in flight the timeout can end it; and
\* when it returns, however the outer call ended, no temporary file of it
\* is left.
C15_PassThroughGuarded ==
  [][\A r \in Reqs :
       PassThrough(r) =>
         /\ (pc[r] = "queued" /\ pc'[r] \in {"spawned", "awaitExec"}) =>
              fs'[TempScript(r)].content =
                [guard |-> TRUE, body |-> rq[r].args.code]
         /\ pc[r] = "spawned" => ENABLED TimesOut(r)
         /\ (Enters(r, "done") /\ nWrites[r] > 0) => ~FileOf(r)']_vars

C15_Witness ==
  \E r, s \in Reqs :
    /\ PassThrough(r) /\ pc[r] = "done" /\ outer[r] = TimedOut
    /\ PassThrough(s) /\ pc[s] = "done" /\ RanOwn(s)
    /\ IsSentinel(outcome[s].text)

\* The outer call of request r ends in this step, with the text of r's own
\* payload on stdout.
Returns(r) == pc[r] = "spawned" /\ pc'[r] = "awaitExec" /\ RanOwn(r)'

\* The fixed messages the templates give when no document is open.
NoDocMessages ==
  { <<"No document open">>,
    <<"No document open. Please create a document first.">>,
    <<"No document open to save">> }

NoDocExempt == {"create_document", "open_document", "execute_indesign_code"}

\* The message of each other operation's first branch.
NoDocMessage(name) ==
  IF name = "create_text_frame"
  THEN <<"No document open. Please create a document first.">>
  ELSE IF name = "save_document" THEN <<"No document open to save">>
  ELSE <<"No document open">>

LastPageMessage == <<"Cannot delete the last page in the document.">>

\* Request r asks to delete the only page of the active document.
DeletesOnlyPage(r) ==
  /\ rq[r].name = "delete_page"
  /\ "pageIndex" \in rq[r].args.has
  /\ rq[r].args.pageIndex = 0
  /\ app = App(1, 1)

\* C17: an outer call that runs delete_page with the index of the only
\* page of the active document returns the fixed refusal message as its
\* value (no sentinel, no failure of the outer call), and the document
\* keeps its page.
C17_LastPageRefused ==
  [][\A r \in Reqs :
       (Returns(r) /\ DeletesOnlyPage(r)) =>
         /\ outcome'[r] = [k |-> "value", text |-> LastPageMessage]
         /\ Trim(raw'[r]) = LastPageMessage
         /\ app' = app]_vars

C17_Witness ==
  \E r \in Reqs :
    /\ pc[r] = "done" /\ RanOwn(r) /\ DeletesOnlyPage(r)
    /\ resp[r] = formatResponse(LastPageMessage, "Delete Page")

\* Request r ended with an error response: the switch refused it, or its
\* outer call failed or returned the engine's error.
Failed(r) ==
  pc[r] = "done" /\ resp[r].kind = "error" /\ outcome[r] # WriteThrown

\* Process p can take its next step: the handler or the cleanup at the head
\* of its queue, or the end of the synchronous call that holds it.
CanStep(p) ==
  IF cur[p] # 0 THEN ENABLED (ExecReturn(p) \/ Unlink(p))
  ELSE mq[p] # <<>> => ENABLED (HandlerStart(p) \/ Finally(p))

\* C18: a request that ended with an error of the switch, of the outer call
\* or of the engine, whichever it is, leaves its
\* server process as it was before: the request holds neither the process
\* nor a place in its queue, no temporary file of it is left, and the
\* process goes on with whatever it has to do next.
C18_FailureIsolated ==
  \A r \in Reqs :
    Failed(r) =>
      LET p == rq[r].proc IN
      /\ cur[p] # r
      /\ \A i \in 1..Len(mq[p]) : mq[p][i] # r
      /\ ~FileOf(r)
      /\ CanStep(p)

C18_Witness ==
  \E r, s \in Reqs :
    /\ Failed(r) /\ outer[r] = TimedOut
    /\ rq[s].proc = rq[r].proc
    /\ pc[s] = "spawned"

\* C19: every request whose outer call was issued comes to its response;
\* a request has a response exactly when it has ended, and the response,
\* once given, stays as it is until the request is discarded.
C19_OneOutcome ==
  /\ \A r \in Reqs : (nCalls[r] > 0) ~> (pc[r] = "done")
  /\ [](\A r \in Reqs : (pc[r] = "done") <=> (resp[r] # NoResp))
  /\ [][\A r \in Reqs :
          resp[r] # NoResp => (resp'[r] = resp[r] \/ pc'[r] = "free")]_vars

C19_Witness ==
  \E r, s \in Reqs :
    /\ r # s
    /\ pc[r] = "done" /\ nCalls[r] = 1 /\ resp[r].kind = "content"
    /\ pc[s] = "done" /\ nCalls[s] = 1 /\ resp[s].kind = "error"
    /\ outer[s] = TimedOut

\* t is s without the whitespace around it, and otherwise s as it is.
IsTrimOf(t, s) ==
  \E i \in 1..(Len(s) + 1), j \in 0..Len(s) :
    /\ t = SubSeq(s, i, j)
    /\ \A k \in 1..Len(s) : (k < i \/ k > j) => s[k] \in Whitespace
    /\ t # <<>> => (t[1] \notin Whitespace /\ t[Len(t)] \notin Whitespace)

\* C20: a request whose bridge call returned text is answered with a text
\* content block, and such a block is the operation's label, then ": ",
\* then the standard output of the request's outer call without its
\* surrounding whitespace and otherwise unchanged.
C20_SuccessText ==
  \A r \in Reqs :
    /\ (pc[r] = "done" /\ outcome[r].k = "value") => resp[r].kind = "content"
    /\ (pc[r] = "done" /\ resp[r].kind = "content") =>
      /\ outer[r] = "stdout"
      /\ Len(resp[r].text) >= 2
      /\ SubSeq(resp[r].text, 1, 2) = <<Label(rq[r].name), ": ">>
      /\ IsTrimOf(SubSeq(resp[r].text, 3, Len(resp[r].text)), raw[r])

C20_Witness ==
  \E r \in Reqs :
    /\ pc[r] = "done"
    /\ raw[r] = <<" ", "ok", " ", Newline>>
    /\ resp[r] = [kind |-> "content", code |-> "",
                  text |-> <<"Execute Custom Code", ": ", "ok">>]

\* The temporary file at f holds the payload written for request r, which
\* is still under way.
Holds(f, r) ==
  /\ fs[f].exists
  /\ fs[f].owner = r
  /\ pc[r] \notin {"free", "queued"}
  /\ fs[f].content = PayloadOf(r)

\* The parameter a statement of a payload is rendered for, "" for none.
ClauseOf(st) ==
  CASE st.k \in {"clause", "ifPositive"} -> st.s[1]
    [] st.k = "assign" -> "content"
    [] st.k = "addColor" -> "colorModel"
    [] st.k = "export" -> "format"
    [] OTHER -> ""

\* The parameters a payload has a clause for.
ClauseParams(body) == {ClauseOf(body[i]) : i \in 1..Len(body)} \ {""}

\* C21: for every operation and every optional parameter of it that the
\* request does not carry, the payload written for the request has no
\* clause for that parameter, neither one rendered with a value nor a
\* conditional of the foreign script that decides at run time.
C21_AbsentOmitted ==
  \A f \in Paths : \A r \in Reqs :
    Holds(f, r) =>
      \A q \in Optional(rq[r].name) \ rq[r].args.has :
        q \notin ClauseParams(fs[f].content.body)

\* Request r went into executeInDesignScript.
ReachedBridge(r) ==
  pc[r] # "free" /\ (nWrites[r] > 0 \/ outcome[r] = WriteThrown)

\* C22: every request that reaches the bridge issues exactly one outer
\* automation command and writes exactly one temporary file.
C22_ExactlyOne ==
  \A r \in Reqs : ReachedBridge(r) => (nWrites[r] = 1 /\ nCalls[r] = 1)

\* The outer call of request r has been issued.
Issued(r) ==
  pc[r] \in {"spawned", "awaitExec", "unlinking"}
    \/ (pc[r] = "done" /\ outer[r] # "none")

\* C22, amended: a request never writes a second temporary file and never
\* issues a second outer call; a request whose outer call has been issued
\* has written one file and issued one call, and a request whose write of
\* the temporary file failed has written none and issued none.
C22_AtMostOne ==
  \A r \in Reqs :
    /\ nWrites[r] <= 1 /\ nCalls[r] <= 1
    /\ Issued(r) => (nWrites[r] = 1 /\ nCalls[r] = 1)
    /\ outcome[r] = WriteThrown => (nWrites[r] = 0 /\ nCalls[r] = 0)

C22_Witness ==
  \E r, s \in Reqs :
    /\ pc[r] = "done" /\ outer[r] = SpawnFailure /\ nCalls[r] = 1
    /\ pc[s] = "done" /\ outcome[s] = WriteThrown /\ nCalls[s] = 0

\* C23: an outer call of export_images that answers with its success
\* message has exported the pages in the format the request asked for, and
\* the message names that format, for each format of the catalog.
C23_RequestedFormat ==
  [][\A r \in Reqs :
       (/\ Returns(r)
        /\ rq[r].name = "export_images"
        /\ "format" \in rq[r].args.has
        /\ Has(raw'[r], "Exported ")) =>
         /\ app'.exported = rq[r].args.format
         /\ Has(raw'[r], rq[r].args.format)]_vars

\* C24: a request whose write of the temporary file fails ends without an
\* outer call, and the failed write leaves no file at the path: what is
\* there afterwards, if anything, is the file that was there before,
\* untouched.
C24_WriteFailureClean ==
  [][\A r \in Reqs :
       (Enters(r, "done") /\ outcome'[r] = WriteThrown) =>
         /\ nCalls'[r] = 0
         /\ outer'[r] = "none"
         /\ fs'[TempScript(r)].exists =>
              fs'[TempScript(r)] = fs[TempScript(r)]]_vars

\* C25: in one server process, whatever the order in which the steps of
\* two requests fall, the handler and outer call of one between the outer
\* call and the cleanup of the other included: an outer call that returns
\* text has run the request's own payload and the request is answered with
\* that text, no cleanup fails on a file that is gone, and once every
\* request under way has written its file and ended, no temporary file is
\* there.
C25_SharedFileInOneProcess ==
  /\ \A r \in Reqs : outer[r] = "stdout" => RanOwn(r)
  /\ \A r \in Reqs :
       (pc[r] = "done" /\ outer[r] = "stdout") =>
         resp[r] = formatResponse(Trim(raw[r]), Label(rq[r].name))
  /\ \A r \in Reqs : outcome[r] # UnlinkThrown
  /\ (\A r \in Reqs : pc[r] = "done" /\ nWrites[r] > 0) =>
       \A f \in Paths : ~fs[f].exists

C25_Witness ==
  \E r, s \in Reqs :
    /\ r # s
    /\ rq[r].proc = rq[s].proc
    /\ pc[r] = "done" /\ RanOwn(r) /\ resp[r].kind = "content"
    /\ pc[s] = "awaitExec" /\ RanOwn(s)
    /\ ~fs[TempScript(s)].exists

\* C26: for every operation and every optional parameter of it that the
\* request carries, whatever its value (0 and the empty string included),
\* the payload written for the request has the clause of that parameter.
C26_PresentRendered ==
  \A f \in Paths : \A r \in Reqs :
    Holds(f, r) =>
      \A q \in Optional(rq[r].name) \cap rq[r].args.has :
        q \in ClauseParams(fs[f].content.body)

\* The operations of the catalog that require no parameter and read the
\* arguments object.
AllOptional ==
  { "create_document", "save_document", "close_document", "add_page",
    "list_styles", "preflight_document", "zoom_to_page" }

\* C27: a request for an operation without required parameters that comes
\* without an arguments object goes into the bridge, rendered with the
\* defaults; it is not refused before.
C27_DefaultsWithoutArguments ==
  \A r \in Reqs :
    (pc[r] = "done" /\ rq[r].name \in AllOptional /\ ~rq[r].args.obj) =>
      /\ ReachedBridge(r)
      /\ resp[r] # HandlerCatch(rq[r].name, TypeErrorMessage)

\* The response to a name the switch has no case for.
UnknownToolResponse(name) == HandlerCatch(name, UnknownToolMessage(name))

\* C28: a request is answered by the unknown-tool branch of the switch
\* exactly when its name is not in the tool listing: every listed name has
\* a case, and every name with a case is listed.
C28_CatalogIsRouted ==
  \A r \in Reqs :
    pc[r] = "done" =>
      (rq[r].name \in Catalog <=> resp[r] # UnknownToolResponse(rq[r].name))

C28_Witness ==
  \E r \in Reqs :
    /\ pc[r] = "done"
    /\ rq[r].name = "zoom_to_page"
    /\ resp[r] = HandlerCatch("zoom_to_page", TypeErrorMessage)

\* C29: an open document always has at least one page; an outer call of
\* delete_page that returns the payload's value leaves the number of pages
\* as it was and gives a text that is not the guard's sentinel when the
\* index is outside 0..pages-1 or the document has one page, and leaves one
\* page less when the index is valid, the document has more than one page
\* and no call of the object model failed.
C29_PagesKept ==
  /\ [](app.docs = 1 => app.pages >= 1)
  /\ [][\A r \in Reqs :
          (/\ Returns(r)
           /\ rq[r].name = "delete_page"
           /\ "pageIndex" \in rq[r].args.has
           /\ app.docs = 1) =>
            LET idx == rq[r].args.pageIndex IN
            /\ (idx \notin 0..(app.pages - 1) \/ app.pages = 1) =>
                 /\ app'.pages = app.pages
                 /\ outcome'[r].k = "value"
                 /\ ~IsSentinel(outcome'[r].text)
            /\ (/\ idx \in 0..(app.pages - 1)
                /\ app.pages > 1
                /\ ~Has(raw'[r], EngineMessage[1])) =>
                 app'.pages = app.pages - 1]_vars

C29_Witness ==
  \E r \in Reqs :
    /\ pc[r] = "done" /\ RanOwn(r)
    /\ rq[r].name = "delete_page"
    /\ Has(raw[r], " deleted. Remaining pages: ")
    /\ app.docs = 1 /\ app.pages = MaxPages - 1
    /\ resp[r].kind = "content"

\* C30: whenever an outer call of create_color_swatch returns the message
\* "Color swatch '<name>' created ...", the active document has a colour
\* of that name, for each colour model of the catalog.
C30_SwatchCreated ==
  [][\A r \in Reqs :
       (/\ Returns(r)
        /\ rq[r].name = "create_color_swatch"
        /\ Has(raw'[r], "Color swatch '")) =>
         CallerName \in app'.colors]_vars

====
